---- MODULE Spec2Model ----
(***************************************************************************)
(* The Tool Dispatcher of the weather tool servers: the read/dispatch/     *)
(* respond loop of mock_weather_server.main and weather_mcp_server.main    *)
(* (the latter in fallback mode), with handle_tool_call, the tool          *)
(* implementations and list_tools.                                         *)
(*                                                                         *)
(* A JSON value is abstracted by the part of it the code looks at.  A      *)
(* request line is a record: `json` says how json.loads fares on it,       *)
(* the other fields hold what the .get calls of the dispatcher find.       *)
(* A key that is missing is Absent; a value that is not a mapping is the   *)
(* JSON array [] ("array"); a location that is not a string is the JSON    *)
(* number 5 (NumLoc); a `days` that is not an integer is the JSON string   *)
(* "x"; a line that is JSON but not an object is the JSON number 5.        *)
(* Timestamps and the random numbers of the mock tools are left out of     *)
(* the payloads; the random choice that changes a payload's shape (an      *)
(* alert or none) is a nondeterministic input of the handler.              *)
(* stdout is assumed writable: print and flush do not raise.  The client   *)
(* side of the pipe (one outstanding call at a time, close of stdin) is   *)
(* the environment of the loop.                                           *)
(*                                                                         *)
(* Several specifications share the module.  Spec and FairSpec run the     *)
(* dispatcher loop.  CodecSpec puts one request through json.dumps and     *)
(* json.loads, character by character, with the dispatcher at rest.        *)
(* SessionSpec and CallFairSpec run an entry point (main.main or           *)
(* get_weather.get_weather) over its agent calls, with the client call     *)
(* under each agent call and a child process that can be killed.           *)
(***************************************************************************)
EXTENDS Integers, Sequences, FiniteSets, TLC

\* ---------------------------------------------------------------- bounds
MaxLines == 2      \* request lines written by the client in one session
MaxId    == 2      \* request ids are null, missing, or 1..MaxId
MaxStr   == 1      \* length of the strings inside an encoded request
MaxDepth == 1      \* nesting depth of the values inside params

\* ------------------------------------------------------------ JSON shapes
Absent == "<absent>"
NumLoc == "<5>"

Servers == {"mock", "mcp"}

NoId     == [t |-> "absent", v |-> 0]
NullId   == [t |-> "null",   v |-> 0]
IntId(n) == [t |-> "int",    v |-> n]
RequestIds == {NoId, NullId} \cup {IntId(n) : n \in 1..MaxId}

NoDays     == [t |-> "absent", v |-> 0]
StrDays    == [t |-> "str",    v |-> 0]
IntDays(n) == [t |-> "int",    v |-> n]

BaseLine ==
    [json |-> "object", method |-> Absent, params |-> Absent, name |-> Absent,
     arguments |-> Absent, location |-> Absent, days |-> NoDays,
     units |-> Absent, id |-> NoId]

NoLine      == [BaseLine EXCEPT !.json = "none"]
InvalidLine == [BaseLine EXCEPT !.json = "invalid"]
ScalarLine  == [BaseLine EXCEPT !.json = "scalar"]

ToolNames == {"get_current_weather", "get_forecast", "get_alerts", "get_air_quality"}

\* Requests of a method other than tools/call: any shape of params.
OtherMethodShapes ==
    {[BaseLine EXCEPT !.method = m, !.params = p] :
        m \in {Absent, "ping", "tools/list"}, p \in {Absent, "object", "array"}}

\* tools/call whose params or arguments are missing or are not mappings.
CallShapes ==
    {[BaseLine EXCEPT !.method = "tools/call", !.params = p] : p \in {Absent, "array"}}
    \cup
    {[BaseLine EXCEPT !.method = "tools/call", !.params = "object",
                      !.name = n, !.arguments = a] :
        n \in ToolNames \cup {Absent, "bogus"}, a \in {Absent, "array"}}

CallWith(n, loc, d, u) ==
    [BaseLine EXCEPT !.method = "tools/call", !.params = "object", !.name = n,
                     !.arguments = "object", !.location = loc, !.days = d, !.units = u]

\* tools/call with a mapping of arguments.
ArgumentShapes ==
    {CallWith(n, Absent, NoDays, Absent) : n \in {Absent, "bogus"}}
    \cup {CallWith("get_current_weather", loc, NoDays, u) :
            loc \in {"London", NumLoc}, u \in {Absent, "imperial"}}
    \cup {CallWith("get_current_weather", "London", NoDays, u) :
            u \in {"metric", "standard"}}
    \cup {CallWith("get_forecast", "London", IntDays(2), "standard")}
    \cup {CallWith("get_current_weather", "Atlantis", NoDays, Absent)}
    \cup {CallWith("get_forecast", "London", d, Absent) :
            d \in {StrDays, IntDays(0), IntDays(2)}}
    \cup {CallWith("get_forecast", NumLoc, NoDays, Absent)}
    \cup {CallWith(n, loc, NoDays, Absent) :
            n \in {"get_alerts", "get_air_quality"}, loc \in {"London", NumLoc}}

ObjectShapes == OtherMethodShapes \cup CallShapes \cup ArgumentShapes

Lines ==
    {InvalidLine, ScalarLine}
    \cup {[s EXCEPT !.id = i] : s \in ObjectShapes, i \in RequestIds}


\* --------------------------------------------------------------- payloads
\* What a tool hands back: a result, or an exception on its way up ("raise").
NoPayload ==
    [t |-> "none", error |-> "", tools |-> <<>>, location |-> "", units |-> "", n |-> 0,
     temperature |-> 0, feels_like |-> 0, wind_speed |-> 0]

Raise(msg)       == [NoPayload EXCEPT !.t = "raise", !.error = msg]
ErrorPayload(msg) == [NoPayload EXCEPT !.t = "error", !.error = msg]

\* str(None) in an f-string
Str(v) == IF v = Absent THEN "None" ELSE v

\* str.lower() on the locations of the model
Lower(s) == IF s = "London" THEN "london" ELSE IF s = "Atlantis" THEN "atlantis" ELSE s

\* location.lower().replace(" ", "").replace(",", ""); the locations of the
\* model hold no space and no comma
StripKey(s) == Lower(s)

\* MOCK_WEATHER_DATA, the module-level table of each server: a dict that a
\* tool call could write to.  TABLE is the literal it is built from: the row
\* that the locations of the model can hit (the same row in both servers),
\* numbers in thousandths (12.5 is 12500).
VARIABLE MOCK_WEATHER_DATA

TABLE ==
    [k \in {"london"} |->
        [location |-> "London, UK", temperature |-> 12500, feels_like |-> 11200,
         wind_speed |-> 15300]]

\* the branch of the unit conversion taken for a `units` value
Converted(units) ==
    IF units = "imperial" THEN "imperial"
    ELSE IF units = "standard" THEN "standard" ELSE "metric"

NoLower == "'int' object has no attribute 'lower'"

celsius_to_fahrenheit(celsius) == (celsius * 9) \div 5 + 32000

\* "Convert units if needed": the entries of `weather` after the branch
\* (0.621371 to three places, to stay within 32-bit products)
Convert(weather, units) ==
    IF units = "imperial"
    THEN [weather EXCEPT !.temperature = celsius_to_fahrenheit(@),
                         !.feels_like  = celsius_to_fahrenheit(@),
                         !.wind_speed  = (@ * 621) \div 1000]
    ELSE IF units = "standard"
    THEN [weather EXCEPT !.temperature = @ + 273150,
                         !.feels_like  = @ + 273150,
                         !.wind_speed  = (@ * 10) \div 36]
    ELSE weather

\* weather = the row itself: the dict of the table, not a copy of it
copy_Alias(key) == [shared |-> TRUE, row |-> MOCK_WEATHER_DATA[key]]

\* MOCK_WEATHER_DATA[key].copy(): a new dict with the entries of the row, which
\* shares nothing with the table
copy(key) == [shared |-> FALSE, row |-> MOCK_WEATHER_DATA[key]]

\* the key a location is looked up by
LocKey(srv, location) == IF srv = "mcp" THEN StripKey(location) ELSE Lower(location)

\* the dict returned, as a payload
Weather(weather, units) ==
    [NoPayload EXCEPT !.t = "weather", !.location = weather.location,
                      !.temperature = weather.temperature,
                      !.feels_like = weather.feels_like,
                      !.wind_speed = weather.wind_speed,
                      !.units = Converted(units)]

get_fallback_weather(location, units) ==
    IF location = NumLoc THEN Raise(NoLower)
    ELSE LET weather ==
                IF StripKey(location) \in DOMAIN MOCK_WEATHER_DATA
                THEN copy(StripKey(location)).row
                ELSE [location |-> location, temperature |-> 21100,
                      feels_like |-> 20500, wind_speed |-> 12900]
         IN  Weather(Convert(weather, units), units)

\* an unknown location gets random.uniform values: here the two ends of
\* each range
get_current_weather(srv, location, units, rnd) ==
    IF srv = "mcp" THEN get_fallback_weather(location, units)
    ELSE IF location = NumLoc THEN Raise(NoLower)
    ELSE LET base_temp == 10000 + rnd * 18000
             weather ==
                IF Lower(location) \in DOMAIN MOCK_WEATHER_DATA
                THEN copy(Lower(location)).row
                ELSE [location |-> location, temperature |-> base_temp,
                      feels_like |-> base_temp - (500 + rnd * 1500),
                      wind_speed |-> 5000 + rnd * 15000]
         IN  Weather(Convert(weather, units), units)

\* The table after the call get_current_weather(location, units) of a string
\* location: the assignments of the conversion land in the table's row when
\* `weather` is that row, and in the copy otherwise.
Stored(srv, location, units) ==
    LET key == LocKey(srv, location)
    IN  IF key \in DOMAIN MOCK_WEATHER_DATA /\ copy(key).shared
        THEN [MOCK_WEATHER_DATA EXCEPT ![key] = Convert(@, units)]
        ELSE MOCK_WEATHER_DATA

Min(a, b) == IF a < b THEN a ELSE b

get_forecast(srv, location, days, units, rnd) ==
    LET base == IF srv = "mcp" THEN get_fallback_weather(location, units)
                ELSE get_current_weather(srv, location, units, rnd)
    IN  IF base.t = "raise" THEN base
        ELSE IF days.t = "str"
             THEN IF srv = "mcp"
                  THEN Raise("'<' not supported between instances of 'int' and 'str'")
                  ELSE Raise("'str' object cannot be interpreted as an integer")
        ELSE [NoPayload EXCEPT
                !.t = "forecast",
                !.units = base.units,
                !.n = IF srv = "mcp" THEN Min(days.v, 3) ELSE days.v]

\* rnd = 1: random.random() > 0.7 in the mock server
get_alerts(srv, location, rnd) ==
    [NoPayload EXCEPT !.t = "alerts", !.n = IF srv = "mock" THEN rnd ELSE 0]

get_air_quality(srv, location) ==
    [NoPayload EXCEPT !.t = "air", !.location = location]

\* ------------------------------------------------------- handle_tool_call
\* arguments.get(key, default)
Location(args) == IF args.location = Absent THEN "London" ELSE args.location
Days(args)     == IF args.days = NoDays THEN IntDays(5) ELSE args.days
Units(args, default) == IF args.units = Absent THEN default ELSE args.units

NoGet == "'list' object has no attribute 'get'"

\* try: ... except Exception as e: return {"error": str(e)}
Caught(r) == IF r.t = "raise" THEN ErrorPayload(r.error) ELSE r

\* the body of the try statement; any .get on arguments that are not a
\* mapping raises inside it
ToolBranches(srv, tool_name, args, default_units, rnd) ==
    IF tool_name \in ToolNames /\ args.shape = "array" THEN Raise(NoGet)
    ELSE IF tool_name = "get_current_weather"
         THEN get_current_weather(srv, Location(args), Units(args, default_units), rnd)
    ELSE IF tool_name = "get_forecast"
         THEN LET result == get_forecast(srv, Location(args), Days(args),
                                         Units(args, default_units), rnd)
              IN  IF srv = "mcp" /\ result.t = "forecast" /\ result.n <= 0
                  THEN ErrorPayload("No forecast data available")
                  ELSE result
    ELSE IF tool_name = "get_alerts"
         THEN get_alerts(srv, Location(args), rnd)
    ELSE IF tool_name = "get_air_quality"
         THEN get_air_quality(srv, Location(args))
    ELSE ErrorPayload("Unknown tool: " \o Str(tool_name))

\* environ: the value of WEATHER_UNITS in the environment, or Absent
handle_tool_call(srv, environ, tool_name, args, rnd) ==
    LET default_units == IF srv = "mock" /\ environ # Absent THEN environ ELSE "metric"
    IN  IF srv = "mock" /\ args.shape = "array"
        THEN Raise(NoGet)            \* arguments.get("units", ...) before the try
        ELSE Caught(ToolBranches(srv, tool_name, args, default_units, rnd))

\* a descriptor pasted twice, one tool left out
list_tools_Pasted(srv) ==
    << "get_current_weather", "get_forecast", "get_forecast", "get_air_quality" >>

list_tools(srv) ==
    << "get_current_weather", "get_forecast", "get_alerts", "get_air_quality" >>


\* -------------------------------------------------------------- responses
NoResponse ==
    [kind |-> "none", result |-> NoPayload, code |-> 0, message |-> "", id |-> NullId]

ResultResponse(result, id) ==
    [NoResponse EXCEPT !.kind = "result", !.result = result, !.id = id]

\* the error envelope built with a "result" entry as well
ErrorResponse_Both(code, message) ==
    [NoResponse EXCEPT !.kind = "error", !.code = code, !.message = message,
                       !.result = ErrorPayload(message)]

ErrorResponse(code, message) ==
    [NoResponse EXCEPT !.kind = "error", !.code = code, !.message = message]

PARSE_ERROR    == -32700
INTERNAL_ERROR == -32603

\* request.get("id", 1)
RequestId(l) == IF l.id = NoId THEN IntId(1) ELSE l.id

\* params.get("arguments", {}) with what the tools later look up in it
Arguments(l) ==
    [shape    |-> IF l.arguments = Absent THEN "object" ELSE l.arguments,
     location |-> l.location, days |-> l.days, units |-> l.units]

\* params.get("name") fetched ahead of the branch on the method
Dispatch_Eager(srv, environ, l, rnd) ==
    IF l.params = "array" THEN Raise(NoGet)
    ELSE IF l.method = "tools/call"
    THEN handle_tool_call(srv, environ, l.name, Arguments(l), rnd)
    ELSE IF l.method = "tools/list"
    THEN [NoPayload EXCEPT !.t = "tools", !.tools = list_tools(srv)]
    ELSE ErrorPayload("Unknown method: " \o Str(l.method))

\* if method == "tools/call": ... elif method == "tools/list": ... else: ...
\* The result, or the exception that leaves the statement ("raise").
Dispatch(srv, environ, l, rnd) ==
    IF l.method = "tools/call"
    THEN IF l.params = "array"
         THEN Raise(NoGet)                                \* params.get("name")
         ELSE handle_tool_call(srv, environ, l.name, Arguments(l), rnd)
    ELSE IF l.method = "tools/list"
    THEN [NoPayload EXCEPT !.t = "tools", !.tools = list_tools(srv)]
    ELSE ErrorPayload("Unknown method: " \o Str(l.method))

\* The calls get_current_weather(location, units) and
\* get_fallback_weather(location, units) that handling the line reaches with
\* a string location: none or one, as << location, units >>.
WeatherCalls(srv, env, l) ==
    LET args == Arguments(l)
        default_units == IF srv = "mock" /\ env # Absent THEN env ELSE "metric"
    IN  IF /\ l.json = "object"
           /\ l.method = "tools/call"
           /\ l.params # "array"
           /\ l.name \in {"get_current_weather", "get_forecast"}
           /\ args.shape # "array"
           /\ Location(args) # NumLoc
        THEN {<< Location(args), Units(args, default_units) >>}
        ELSE {}

\* the table after the line has been handled
TableAfter(srv, env, l) ==
    LET calls == WeatherCalls(srv, env, l)
    IN  IF calls = {} THEN MOCK_WEATHER_DATA
        ELSE LET c == CHOOSE c \in calls : TRUE IN Stored(srv, c[1], c[2])

\* handling the line runs a conversion (imperial, standard) on the values of
\* a row of the table
RowConverted(srv, env, l) ==
    \E c \in WeatherCalls(srv, env, l) :
        /\ LocKey(srv, c[1]) \in DOMAIN MOCK_WEATHER_DATA
        /\ Converted(c[2]) # "metric"

Outcome(t, message, r) == [t |-> t, message |-> message, response |-> r]

\* The body of the try statement of main up to the response it builds:
\* the response ("ok"), or the exception that leaves the body.
TryOutcome(srv, environ, l, rnd) ==
    IF l.json = "invalid"
    THEN Outcome("JSONDecodeError", "", NoResponse)          \* json.loads(line)
    ELSE IF l.json = "scalar"
    THEN Outcome("Exception", "'int' object has no attribute 'get'", NoResponse)
    ELSE LET result == Dispatch(srv, environ, l, rnd)
         IN  IF result.t = "raise"
             THEN Outcome("Exception", result.error, NoResponse)
             ELSE Outcome("ok", "", ResultResponse(result, RequestId(l)))

\* ------------------------------------------------------------------ codec
\* JSON values, and json.dumps / json.loads on them.  Text is a sequence of
\* one-character strings; a mapping is the sequence of its << key, value >>
\* entries in insertion order, the keys being character sequences.
JNull    == [t |-> "null", v |-> 0]
JBool(b) == [t |-> "bool", v |-> b]
JInt(n)  == [t |-> "int",  v |-> n]
JStr(cs) == [t |-> "str",  v |-> cs]
JList(xs) == [t |-> "list", v |-> xs]
JMap(es) == [t |-> "map",  v |-> es]

Digits == << "0", "1", "2", "3", "4", "5", "6", "7", "8", "9" >>

RECURSIVE ToDigits(_)
ToDigits(n) ==
    IF n < 10 THEN << Digits[n + 1] >>
    ELSE ToDigits(n \div 10) \o << Digits[(n % 10) + 1] >>

\* the escapes of a string literal that the model's characters can need
Escapes == << << "\"", "\"" >>, << "\\", "\\" >>, << "\n", "n" >>,
              << "\t", "t" >>, << "\r", "r" >> >>

\* a newline written into the literal as it is
EscapeChar_Raw(c) ==
    IF \E i \in 1..Len(Escapes) : Escapes[i][1] = c /\ c # "\n"
    THEN << "\\", Escapes[CHOOSE i \in 1..Len(Escapes) : Escapes[i][1] = c][2] >>
    ELSE << c >>

\* one character of a string, as json.dumps writes it
EscapeChar(c) ==
    IF \E i \in 1..Len(Escapes) : Escapes[i][1] = c
    THEN << "\\", Escapes[CHOOSE i \in 1..Len(Escapes) : Escapes[i][1] = c][2] >>
    ELSE << c >>

RECURSIVE EscapeAll(_)
EscapeAll(cs) ==
    IF cs = << >> THEN << >> ELSE EscapeChar(Head(cs)) \o EscapeAll(Tail(cs))

EncodeString(cs) == << "\"" >> \o EscapeAll(cs) \o << "\"" >>

RECURSIVE dumps(_), dumpsItems(_), dumpsMembers(_)

\* json.dumps(x): the default separators ", " and ": ", no indent
dumps(x) ==
    CASE x.t = "null" -> << "n", "u", "l", "l" >>
      [] x.t = "bool" -> IF x.v THEN << "t", "r", "u", "e" >>
                         ELSE << "f", "a", "l", "s", "e" >>
      [] x.t = "int"  -> IF x.v < 0 THEN << "-" >> \o ToDigits(0 - x.v)
                         ELSE ToDigits(x.v)
      [] x.t = "str"  -> EncodeString(x.v)
      [] x.t = "list" -> << "[" >> \o dumpsItems(x.v) \o << "]" >>
      [] x.t = "map"  -> << "{" >> \o dumpsMembers(x.v) \o << "}" >>

dumpsItems(xs) ==
    IF xs = << >> THEN << >>
    ELSE dumps(Head(xs)) \o
         (IF Tail(xs) = << >> THEN << >> ELSE << ",", " " >> \o dumpsItems(Tail(xs)))

dumpsMembers(es) ==
    IF es = << >> THEN << >>
    ELSE EncodeString(Head(es)[1]) \o << ":", " " >> \o dumps(Head(es)[2]) \o
         (IF Tail(es) = << >> THEN << >> ELSE << ",", " " >> \o dumpsMembers(Tail(es)))

\* What a scanner hands back: the value and the text after it, or failure
\* (json.JSONDecodeError).
Fail == [ok |-> FALSE, v |-> JNull, rest |-> << >>]
Ok(v, rest) == [ok |-> TRUE, v |-> v, rest |-> rest]

Whitespace == {" ", "\n", "\t", "\r"}

RECURSIVE SkipWs(_)
SkipWs(cs) ==
    IF cs # << >> /\ Head(cs) \in Whitespace THEN SkipWs(Tail(cs)) ELSE cs

StartsWith(cs, lit) == Len(cs) >= Len(lit) /\ SubSeq(cs, 1, Len(lit)) = lit

Drop(cs, n) == SubSeq(cs, n + 1, Len(cs))

DigitValue(c) == (CHOOSE i \in 1..10 : Digits[i] = c) - 1

IsDigit(c) == \E i \in 1..10 : Digits[i] = c

\* the digits at the head of the text, as a number, and the text after them
RECURSIVE ScanDigits(_, _)
ScanDigits(cs, acc) ==
    IF cs # << >> /\ IsDigit(Head(cs))
    THEN ScanDigits(Tail(cs), acc * 10 + DigitValue(Head(cs)))
    ELSE Ok(acc, cs)

\* an integer: -? (0 | [1-9][0-9]*)
ScanNumber(cs) ==
    LET neg  == cs # << >> /\ Head(cs) = "-"
        body == IF neg THEN Tail(cs) ELSE cs
    IN  IF body = << >> \/ ~IsDigit(Head(body)) THEN Fail
        ELSE IF Head(body) = "0"
        THEN Ok(JInt(0), Tail(body))
        ELSE LET r == ScanDigits(body, 0)
             IN  Ok(JInt(IF neg THEN 0 - r.v ELSE r.v), r.rest)

\* the text after the opening quote: up to the closing quote, escapes
\* undone; a control character inside the literal is an error
RECURSIVE scanstring(_, _)
scanstring(cs, acc) ==
    IF cs = << >> THEN Fail
    ELSE IF Head(cs) = "\"" THEN Ok(acc, Tail(cs))
    ELSE IF Head(cs) = "\\"
    THEN IF Len(cs) >= 2 /\ \E i \in 1..Len(Escapes) : Escapes[i][2] = cs[2]
         THEN scanstring(Drop(cs, 2),
                 Append(acc, Escapes[CHOOSE i \in 1..Len(Escapes) :
                                         Escapes[i][2] = cs[2]][1]))
         ELSE Fail
    ELSE IF Head(cs) \in {"\n", "\t", "\r"} THEN Fail
    ELSE scanstring(Tail(cs), Append(acc, Head(cs)))

\* d[key] = value on the dict being built: a key met again keeps its place
\* and takes the new value
Put(es, key, value) ==
    IF \E i \in 1..Len(es) : es[i][1] = key
    THEN [i \in 1..Len(es) |-> IF es[i][1] = key THEN << key, value >> ELSE es[i]]
    ELSE Append(es, << key, value >>)

RECURSIVE scan_once(_), ScanElements(_, _), ScanMembers(_, _)

\* one JSON value at the head of the text
scan_once(cs) ==
    IF cs = << >> THEN Fail
    ELSE IF Head(cs) = "\""
    THEN LET r == scanstring(Tail(cs), << >>)
         IN  IF r.ok THEN Ok(JStr(r.v), r.rest) ELSE Fail
    ELSE IF Head(cs) = "{"
    THEN LET u == SkipWs(Tail(cs))
         IN  IF u # << >> /\ Head(u) = "}" THEN Ok(JMap(<< >>), Tail(u))
             ELSE ScanMembers(u, << >>)
    ELSE IF Head(cs) = "["
    THEN LET u == SkipWs(Tail(cs))
         IN  IF u # << >> /\ Head(u) = "]" THEN Ok(JList(<< >>), Tail(u))
             ELSE ScanElements(u, << >>)
    ELSE IF StartsWith(cs, << "n", "u", "l", "l" >>) THEN Ok(JNull, Drop(cs, 4))
    ELSE IF StartsWith(cs, << "t", "r", "u", "e" >>) THEN Ok(JBool(TRUE), Drop(cs, 4))
    ELSE IF StartsWith(cs, << "f", "a", "l", "s", "e" >>) THEN Ok(JBool(FALSE), Drop(cs, 5))
    ELSE ScanNumber(cs)

\* value (, value)* ]
ScanElements(cs, acc) ==
    LET r == scan_once(cs)
        u == SkipWs(r.rest)
    IN  IF ~r.ok \/ u = << >> THEN Fail
        ELSE IF Head(u) = "]" THEN Ok(JList(Append(acc, r.v)), Tail(u))
        ELSE IF Head(u) = "," THEN ScanElements(SkipWs(Tail(u)), Append(acc, r.v))
        ELSE Fail

\* "key" : value (, "key" : value)* }
ScanMembers(cs, acc) ==
    IF cs = << >> \/ Head(cs) # "\"" THEN Fail
    ELSE LET k == scanstring(Tail(cs), << >>)
             c == SkipWs(k.rest)
         IN  IF ~k.ok \/ c = << >> \/ Head(c) # ":" THEN Fail
             ELSE LET r == scan_once(SkipWs(Tail(c)))
                      u == SkipWs(r.rest)
                  IN  IF ~r.ok \/ u = << >> THEN Fail
                      ELSE IF Head(u) = "}"
                      THEN Ok(JMap(Put(acc, k.v, r.v)), Tail(u))
                      ELSE IF Head(u) = ","
                      THEN ScanMembers(SkipWs(Tail(u)), Put(acc, k.v, r.v))
                      ELSE Fail

\* json.loads(line): one value with whitespace around it and nothing else
loads(cs) ==
    LET r == scan_once(SkipWs(cs))
    IN  IF r.ok /\ SkipWs(r.rest) = << >> THEN Ok(r.v, << >>) ELSE Fail

\* The requests put through the codec: {"jsonrpc": "2.0", "method": m,
\* "params": p, "id": i} with p a mapping of nested values.  The characters
\* are a letter and the three that a string literal has to escape.
Chars == {"a", "\"", "\\", "\n"}

Strings(n) == UNION {[1..k -> Chars] : k \in 0..n}

Keys == Strings(1)

Scalars ==
    {JNull, JBool(TRUE), JBool(FALSE)}
    \cup {JInt(n) : n \in {0, 7, 0 - 120}}
    \cup {JStr(cs) : cs \in Strings(MaxStr)}

RECURSIVE Values(_)
Values(d) ==
    IF d = 0 THEN Scalars
    ELSE LET V == Values(d - 1)
         IN  V \cup {JList(<< >>), JMap(<< >>)}
               \cup {JList(<< v >>) : v \in V}
               \cup {JList(<< JInt(7), v >>) : v \in V}
               \cup {JMap(<< << k, v >> >>) : k \in Keys, v \in V}
               \cup {JMap(<< << << "i", "d" >>, JNull >>, << k, v >> >>) :
                        k \in Keys, v \in V}

Methods == { << "t", "o", "o", "l", "s", "/", "c", "a", "l", "l" >>,
             << "p", "i", "n", "g" >> }

Request(method, params, id) ==
    JMap(<< << << "j", "s", "o", "n", "r", "p", "c" >>, JStr(<< "2", ".", "0" >>) >>,
            << << "m", "e", "t", "h", "o", "d" >>, JStr(method) >>,
            << << "p", "a", "r", "a", "m", "s" >>, params >>,
            << << "i", "d" >>, JInt(id) >> >>)

\* params: a mapping, empty or of one argument
Params ==
    {JMap(<< >>)} \cup {JMap(<< << << "a", "r", "g" >>, v >> >>) : v \in Values(MaxDepth)}

Requests == {Request(m, p, i) : m \in Methods, p \in Params, i \in 1..MaxId}

\* ------------------------------------------------------------------ state
\* One request on its way through json.dumps, the pipe and json.loads.
VARIABLES
    request,    \* the request, a JSON value
    wire,       \* the line written for it, a sequence of characters
    decoded,    \* what json.loads made of the line
    cpc         \* "encode", "decode", "done"; "off" while the dispatcher is looked at

codecVars == << request, wire, decoded, cpc >>

\* One run of an entry point (main.main or get_weather.get_weather) with its
\* agent, the client under the agent and the child server process.
VARIABLES
    entry,      \* which entry point runs
    epc,        \* its position: "start", "call", "stop", "except", "returned"; "off"
    step,       \* number of the agent call it is at
    stopped,    \* agent.stop() has been called
    child,      \* the server process: "none", "running", "killed", "exited"
    cstate,     \* the client call under the agent call: "idle", "pending",
                \* "result", "TransportError"
    cause,      \* what a TransportError was raised for
    raised,     \* the exception on its way up through the entry point
    ret         \* what the entry point returned

sessionVars == << entry, epc, step, stopped, child, cstate, cause, raised, ret >>

otherVars == << codecVars, sessionVars >>

VARIABLES
    server,     \* which of the two servers runs
    environ,    \* WEATHER_UNITS in the server's environment, or Absent
    closed,     \* the client has closed the server's stdin
    sent,       \* number of request lines the client has written to the pipe
    pc,         \* position of main: "read", "try", the except clauses, "exited"
    line,       \* the line last read, while it is handled and until the client
                \* has read the response to it
    exc,        \* str(e) of the exception being handled
    nread,      \* number of request lines readline has returned
    stdout,     \* response lines printed, each as its envelope (Envelope)
    response,   \* the line last printed, in full, until the client has read it
    served,     \* served[k]: the number of the request line that stdout[k] was printed for
    exit_code,  \* -1 while the process runs
    converted   \* history: a unit conversion has run on the values of a table row

dispatcherVars ==
    << MOCK_WEATHER_DATA, converted, server, environ, closed, sent, pc, line,
       exc, nread, stdout, response, served, exit_code >>

vars == << dispatcherVars, otherVars >>

\* no entry point runs
SessionOff ==
    /\ entry = "main"
    /\ epc = "off"
    /\ step = 0
    /\ stopped = FALSE
    /\ child = "none"
    /\ cstate = "idle"
    /\ cause = ""
    /\ raised = ""
    /\ ret = "none"

\* the server process has started and has read nothing
DispatcherInit ==
    /\ server \in Servers
    /\ environ \in {Absent, "imperial"}
    /\ server = "mcp" => environ = Absent
    /\ closed = FALSE
    /\ sent = 0
    /\ pc = "read"
    /\ line = NoLine
    /\ exc = ""
    /\ nread = 0
    /\ stdout = << >>
    /\ response = NoResponse
    /\ served = << >>
    /\ exit_code = -1
    /\ MOCK_WEATHER_DATA = TABLE
    /\ converted = FALSE

Init ==
    /\ DispatcherInit
    /\ request = JNull
    /\ wire = << >>
    /\ decoded = Fail
    /\ cpc = "off"
    /\ SessionOff

\* The client writes one request line; it has read the response to the
\* previous one (at most one outstanding call).  That exchange is over: the
\* value of `line` is dead in the server and `response` has been consumed.
ClientWrite ==
    /\ ~closed
    /\ sent < MaxLines
    /\ Len(stdout) = sent
    /\ sent' = sent + 1
    /\ line' = NoLine
    /\ response' = NoResponse
    /\ UNCHANGED otherVars
    /\ UNCHANGED << MOCK_WEATHER_DATA, converted, server, environ, closed, pc, exc, nread, stdout, served, exit_code >>

\* The client closes the pipe (stop, or the client process ends).
ClientClose ==
    /\ ~closed
    /\ closed' = TRUE
    /\ UNCHANGED otherVars
    /\ UNCHANGED << MOCK_WEATHER_DATA, converted, server, environ, sent, pc, line, exc, nread, stdout, response, served, exit_code >>

\* line = sys.stdin.readline() returns the line waiting in the pipe.  The pipe
\* holds at most one line, and what the line says is drawn here, where the
\* server first looks at it.
ReadLine ==
    /\ pc = "read"
    /\ nread < sent
    /\ \E l \in Lines : line' = l
    /\ nread' = nread + 1
    /\ pc' = "try"
    /\ UNCHANGED otherVars
    /\ UNCHANGED << MOCK_WEATHER_DATA, converted, server, environ, closed, sent, exc, stdout, response, served,
                    exit_code >>

\* no test for the end of the stream: "" goes on to json.loads
ReadEOF_NoBreak ==
    /\ pc = "read"
    /\ nread = sent
    /\ closed
    /\ Len(stdout) < MaxLines + 1
    /\ pc' = "JSONDecodeError"
    /\ UNCHANGED otherVars
    /\ UNCHANGED << MOCK_WEATHER_DATA, converted, server, environ, closed, sent, line, exc, nread, stdout, response,
                    served, exit_code >>

\* readline returns "": if not line: break, and main returns
ReadEOF ==
    /\ pc = "read"
    /\ nread = sent
    /\ closed
    /\ pc' = "exited"
    /\ exit_code' = 0
    /\ UNCHANGED otherVars
    /\ UNCHANGED << MOCK_WEATHER_DATA, converted, server, environ, closed, sent, line, exc, nread, stdout, response, served >>

\* the fields of the envelope of a response line
Envelope(r) == [kind |-> r.kind, code |-> r.code, id |-> r.id]

\* the response printed in the try body and again after it
WriteResponse_Twice(r) ==
    /\ stdout' = stdout \o << Envelope(r), Envelope(r) >>
    /\ response' = r
    /\ served' = served \o << nread, nread >>

\* print(json.dumps(...)); sys.stdout.flush()
WriteResponse(r) ==
    /\ stdout' = Append(stdout, Envelope(r))
    /\ response' = r
    /\ served' = Append(served, nread)

\* the try body: decode, dispatch, print the response
TryBody ==
    /\ pc = "try"
    /\ \E rnd \in {0, 1} :
         LET out == TryOutcome(server, environ, line, rnd)
         IN  IF out.t = "ok"
             THEN /\ WriteResponse(out.response)
                  /\ pc' = "read"
                  /\ exc' = ""
             ELSE /\ pc' = out.t
                  /\ exc' = out.message
                  /\ UNCHANGED << stdout, response, served >>
    /\ MOCK_WEATHER_DATA' = TableAfter(server, environ, line)
    /\ converted' = (converted \/ RowConverted(server, environ, line))
    /\ UNCHANGED otherVars
    /\ UNCHANGED << server, environ, closed, sent, line, nread, exit_code >>

\* the parse error is printed and the loop is left
ExceptJSONDecodeError_Break ==
    /\ pc = "JSONDecodeError"
    /\ WriteResponse(ErrorResponse(PARSE_ERROR, "Parse error"))
    /\ pc' = "exited"
    /\ exc' = ""
    /\ exit_code' = 0
    /\ UNCHANGED otherVars
    /\ UNCHANGED << MOCK_WEATHER_DATA, converted, server, environ, closed, sent, line, nread >>

\* except json.JSONDecodeError: continue
ExceptJSONDecodeError_Silent ==
    /\ pc = "JSONDecodeError"
    /\ pc' = "read"
    /\ exc' = ""
    /\ UNCHANGED otherVars
    /\ UNCHANGED << MOCK_WEATHER_DATA, converted, server, environ, closed, sent, line, nread, stdout, response,
                    served, exit_code >>

\* except json.JSONDecodeError
ExceptJSONDecodeError ==
    /\ pc = "JSONDecodeError"
    /\ WriteResponse(ErrorResponse(PARSE_ERROR, "Parse error"))
    /\ pc' = "read"
    /\ exc' = ""
    /\ UNCHANGED otherVars
    /\ UNCHANGED << MOCK_WEATHER_DATA, converted, server, environ, closed, sent, line, nread, exit_code >>

\* except Exception: pass
ExceptException_Silent ==
    /\ pc = "Exception"
    /\ pc' = "read"
    /\ exc' = ""
    /\ UNCHANGED otherVars
    /\ UNCHANGED << MOCK_WEATHER_DATA, converted, server, environ, closed, sent, line, nread, stdout, response,
                    served, exit_code >>

\* except Exception as e
ExceptException ==
    /\ pc = "Exception"
    /\ WriteResponse(ErrorResponse(INTERNAL_ERROR, exc))
    /\ pc' = "read"
    /\ exc' = ""
    /\ UNCHANGED otherVars
    /\ UNCHANGED << MOCK_WEATHER_DATA, converted, server, environ, closed, sent, line, nread, exit_code >>

Next ==
    \/ ClientWrite
    \/ ClientClose
    \/ ReadLine
    \/ ReadEOF
    \/ TryBody
    \/ ExceptJSONDecodeError
    \/ ExceptException

Spec == Init /\ [][Next]_vars

\* the server is scheduled: each step of main that can be taken is taken
FairSpec == Spec /\ WF_vars(ReadLine) /\ WF_vars(ReadEOF) /\ WF_vars(TryBody)
                 /\ WF_vars(ExceptJSONDecodeError) /\ WF_vars(ExceptException)

\* the client writes the request: encode gives the text, one newline ends it
EncodeRequest ==
    /\ cpc = "encode"
    /\ wire' = dumps(request) \o << "\n" >>
    /\ cpc' = "decode"
    /\ UNCHANGED << request, decoded >>
    /\ UNCHANGED << dispatcherVars, sessionVars >>

\* line = sys.stdin.readline(); request = json.loads(line)
DecodeLine ==
    /\ cpc = "decode"
    /\ decoded' = loads(wire)
    /\ cpc' = "done"
    /\ UNCHANGED << request, wire >>
    /\ UNCHANGED << dispatcherVars, sessionVars >>

CodecInit ==
    /\ DispatcherInit
    /\ server = "mock"
    /\ environ = Absent
    /\ request \in Requests
    /\ wire = << >>
    /\ decoded = Fail
    /\ cpc = "encode"
    /\ SessionOff

CodecNext ==
    \/ EncodeRequest
    \/ DecodeLine

CodecSpec == CodecInit /\ [][CodecNext]_vars

\* ---------------------------------------------------------- entry points
EntryPoints == {"main", "get_weather"}

\* the agent calls between start and stop: main makes four for each of four
\* locations and then analyze_weather; get_weather makes three
NumCalls(e) == IF e = "main" THEN 4 * 4 + 1 ELSE 3

\* agent.start(): false when the server cannot be spawned, and the entry
\* point returns; true with the child running
AgentStart ==
    /\ epc = "start"
    /\ \/ /\ epc' = "returned"
          /\ ret' = IF entry = "main" THEN "1" ELSE "None"
          /\ UNCHANGED << child, step >>
       \/ /\ child' = "running"
          /\ epc' = "call"
          /\ step' = 1
          /\ UNCHANGED ret
    /\ UNCHANGED << entry, stopped, cstate, cause, raised >>
    /\ UNCHANGED << dispatcherVars, codecVars >>

\* the child is killed from outside; its end of both pipes closes
ChildKilled ==
    /\ child = "running"
    /\ child' = "killed"
    /\ UNCHANGED << entry, epc, step, stopped, cstate, cause, raised, ret >>
    /\ UNCHANGED << dispatcherVars, codecVars >>

\* call: write_line of the request; BrokenPipe when the child has exited
CallWrite ==
    /\ epc = "call"
    /\ cstate = "idle"
    /\ IF child = "running"
       THEN cstate' = "pending" /\ cause' = ""
       ELSE cstate' = "TransportError" /\ cause' = "broken pipe"
    /\ UNCHANGED << entry, epc, step, stopped, child, raised, ret >>
    /\ UNCHANGED << dispatcherVars, codecVars >>

\* read_line that goes on waiting when the child's output has closed
CallRead_Blocks ==
    /\ epc = "call"
    /\ cstate = "pending"
    /\ IF child = "running"
       THEN cstate' = "result" /\ cause' = ""
       ELSE UNCHANGED << cstate, cause >>
    /\ UNCHANGED << entry, epc, step, stopped, child, raised, ret >>
    /\ UNCHANGED << dispatcherVars, codecVars >>

\* call: read_line gives the response line of the running server, or
\* end-of-stream when the child has closed its output
CallRead ==
    /\ epc = "call"
    /\ cstate = "pending"
    /\ IF child = "running"
       THEN cstate' = "result" /\ cause' = ""
       ELSE cstate' = "TransportError" /\ cause' = "end-of-stream"
    /\ UNCHANGED << entry, epc, step, stopped, child, raised, ret >>
    /\ UNCHANGED << dispatcherVars, codecVars >>

\* where an exception raised by an agent call takes the entry point: the
\* except clauses of main, the finally clause of get_weather
Handler(e) == IF e = "main" THEN "except" ELSE "stop"

\* the agent call returns (a value, or None for a failure it has caught);
\* the entry point goes on to the next call, or to agent.stop() after the last
AgentCallReturns ==
    /\ epc = "call"
    /\ cstate \in {"result", "TransportError"}
    /\ cstate' = "idle"
    /\ cause' = ""
    /\ IF step < NumCalls(entry)
       THEN step' = step + 1 /\ UNCHANGED epc
       ELSE epc' = "stop" /\ UNCHANGED step
    /\ UNCHANGED << entry, stopped, child, raised, ret >>
    /\ UNCHANGED << dispatcherVars, codecVars >>

\* the agent call raises: the failure of the client call, or one of its own
AgentCallRaises ==
    /\ epc = "call"
    /\ cstate \in {"result", "TransportError"}
    /\ cstate' = "idle"
    /\ cause' = ""
    /\ raised' = "Exception"
    /\ epc' = Handler(entry)
    /\ UNCHANGED << entry, step, stopped, child, ret >>
    /\ UNCHANGED << dispatcherVars, codecVars >>

\* KeyboardInterrupt while an agent call runs
Interrupt ==
    /\ epc = "call"
    /\ cstate' = "idle"
    /\ cause' = ""
    /\ raised' = "KeyboardInterrupt"
    /\ epc' = Handler(entry)
    /\ UNCHANGED << entry, step, stopped, child, ret >>
    /\ UNCHANGED << dispatcherVars, codecVars >>

\* agent.stop(): line 78 of main, the finally clause of get_weather, after
\* which get_weather returns or the exception goes on up
AgentStop ==
    /\ epc = "stop"
    /\ stopped' = TRUE
    /\ child' = IF child = "running" THEN "exited" ELSE child
    /\ epc' = "returned"
    /\ ret' = IF raised # "" THEN ret ELSE IF entry = "main" THEN "0" ELSE "None"
    /\ UNCHANGED << entry, step, cstate, cause, raised >>
    /\ UNCHANGED << dispatcherVars, codecVars >>

\* except KeyboardInterrupt / except Exception of main: log, return 1
ExceptReturn ==
    /\ epc = "except"
    /\ epc' = "returned"
    /\ ret' = "1"
    /\ raised' = ""
    /\ UNCHANGED << entry, step, stopped, child, cstate, cause >>
    /\ UNCHANGED << dispatcherVars, codecVars >>

SessionInit ==
    /\ DispatcherInit
    /\ server = "mock"
    /\ environ = Absent
    /\ request = JNull
    /\ wire = << >>
    /\ decoded = Fail
    /\ cpc = "off"
    /\ entry \in EntryPoints
    /\ epc = "start"
    /\ step = 0
    /\ stopped = FALSE
    /\ child = "none"
    /\ cstate = "idle"
    /\ cause = ""
    /\ raised = ""
    /\ ret = "none"

\* a run in which the user does not interrupt
CallNext ==
    \/ AgentStart
    \/ ChildKilled
    \/ CallWrite
    \/ CallRead
    \/ AgentCallReturns
    \/ AgentCallRaises
    \/ AgentStop
    \/ ExceptReturn

SessionNext ==
    \/ AgentStart
    \/ ChildKilled
    \/ CallWrite
    \/ CallRead
    \/ AgentCallReturns
    \/ AgentCallRaises
    \/ Interrupt
    \/ AgentStop
    \/ ExceptReturn

SessionSpec == SessionInit /\ [][SessionNext]_vars

\* the client is scheduled: a call that can take its next step takes it
CallFairSpec ==
    SessionInit /\ [][CallNext]_vars /\ WF_vars(CallWrite) /\ WF_vars(CallRead)

TypeOK ==
    /\ server \in Servers
    /\ pc \in {"read", "try", "JSONDecodeError", "Exception", "exited"}
    /\ sent - nread <= 1
    /\ nread <= sent /\ sent <= MaxLines


\* ------------------------------------------------------------- properties
\* The line last read has been handled: `response` is what was printed for it.
Answered == pc \in {"read", "exited"} /\ line # NoLine

SomeResponse(code) == \E k \in 1..Len(stdout) : stdout[k].code = code

\* C1: the number of response lines printed never exceeds the number of
\* request lines read, equals it whenever the line last read has been handled
\* (so nothing is printed before the first line is read), and no request line
\* is answered by two response lines.
C1_OneResponsePerRequest ==
    /\ Len(stdout) <= nread
    /\ pc \in {"read", "exited"} => Len(stdout) = nread
    /\ Len(served) = Len(stdout)
    /\ \A j, k \in 1..Len(served) : served[j] = served[k] => j = k
    /\ \A k \in 1..Len(served) : served[k] \in 1..nread

\* two lines read and answered, one by an internal error and one by a result
C1_Witness ==
    /\ pc = "read"
    /\ nread = 2 /\ Len(stdout) = 2
    /\ SomeResponse(INTERNAL_ERROR)
    /\ \E k \in 1..Len(stdout) : stdout[k].kind = "result"


\* The line decodes as a request: json.loads gives a JSON object.
Decodes(l) == l.json = "object"

\* C2: a line that decodes as a request is answered with the id it carries,
\* and a response has a null id only when the line failed to decode (or
\* carries a null id itself); for every method and shape of params and
\* arguments.
C2_IdEchoed ==
    (Answered /\ Decodes(line)) =>
        /\ line.id # NoId   => response.id = line.id
        /\ line.id # NullId => response.id # NullId

\* C3: a line that is not JSON is answered by exactly one response, a parse
\* error (-32700) with a null id; the loop goes on (it leaves only at the end
\* of the stream), and a well-formed request read after a parse error gets a
\* result envelope with its own id.
WellFormed(l) ==
    /\ l.json = "object"
    /\ l.method \in {"tools/list", "tools/call"}
    /\ l.params # "array" /\ l.arguments # "array"
    /\ l.id.t = "int"

C3_ParseErrorAndGoOn ==
    /\ (Answered /\ line.json = "invalid") =>
          /\ response = [kind |-> "error", result |-> NoPayload, code |-> -32700,
                         message |-> "Parse error", id |-> NullId]
          /\ Len(stdout) = nread
          /\ stdout[nread] = [kind |-> "error", code |-> -32700, id |-> NullId]
          /\ served[nread] = nread
    /\ pc = "exited" => (closed /\ nread = sent)
    /\ (Answered /\ WellFormed(line) /\ SomeResponse(-32700)) =>
          /\ response.kind = "result"
          /\ response.result.t \notin {"none", "raise"}
          /\ response.id = line.id
          /\ stdout[nread] = [kind |-> "result", code |-> 0, id |-> line.id]

\* a well-formed tools/list request answered after a parse error
C3_Witness ==
    /\ pc = "read" /\ nread = 2
    /\ stdout[1] = [kind |-> "error", code |-> -32700, id |-> NullId]
    /\ WellFormed(line) /\ line.method = "tools/list"
    /\ response.kind = "result" /\ response.result.t = "tools"

\* C4: a tools/call whose params.name is missing or is no registered tool is
\* answered by a result envelope, result = {error: "Unknown tool: <name>"},
\* with the id of the request.
C4_UnknownToolInResult ==
    (/\ Answered /\ Decodes(line)
     /\ line.method = "tools/call" /\ line.params # "array"
     /\ line.name \notin ToolNames) =>
        /\ response.kind = "result"
        /\ response.code = 0
        /\ response.result.t = "error"
        /\ response.result.error = "Unknown tool: " \o (IF line.name = Absent THEN "None" ELSE line.name)
        /\ line.id # NoId => response.id = line.id

\* The handling of a call to a registered tool raises: in fetching a value
\* from arguments that are not a mapping, or in the tool.
HandlingRaises(l) ==
    /\ l.json = "object" /\ l.method = "tools/call" /\ l.params = "object"
    /\ l.name \in ToolNames
    /\ \/ l.arguments = "array"
       \/ l.name \in {"get_current_weather", "get_forecast"} /\ l.location = NumLoc
       \/ l.name = "get_forecast" /\ l.days.t = "str"

\* C5: when the handling of a call to a registered tool raises, the response
\* is a result envelope, result = {error: <message>}, with the id of the
\* request, and the loop leaves only at the end of the stream.
C5_ToolFailureInResult ==
    /\ (Answered /\ HandlingRaises(line)) =>
          /\ response.kind = "result"
          /\ response.result.t = "error"
          /\ response.result.error # ""
          /\ line.id # NoId => response.id = line.id
    /\ pc = "exited" => (closed /\ nread = sent)


\* C6: a decoded request whose method is neither tools/list nor tools/call
\* (a missing method included) is answered by a result envelope,
\* result = {error: "Unknown method: <method>"}, with the id of the request
\* (1 when the request has none), whatever its params.
C6_UnknownMethodInResult ==
    (Answered /\ Decodes(line) /\ line.method \notin {"tools/list", "tools/call"}) =>
        /\ response.kind = "result"
        /\ response.code = 0 /\ response.message = ""
        /\ response.result =
              [NoPayload EXCEPT
                 !.t = "error",
                 !.error = "Unknown method: " \o
                           (IF line.method = Absent THEN "None" ELSE line.method)]
        /\ response.id = (IF line.id = NoId THEN IntId(1) ELSE line.id)

\* an unknown method with params that are not a mapping, answered after an
\* internal error
C6_Witness ==
    /\ pc = "read" /\ nread >= 2
    /\ line.method = "ping" /\ line.params = "array" /\ line.id = IntId(2)
    /\ response.result.error = "Unknown method: ping"
    /\ response.id = IntId(2)
    /\ SomeResponse(-32603)

\* C7: a tools/list request is answered by result = {tools: [...]} in which
\* each registered tool name appears exactly once, and the list is the same
\* four names at every point of a session.
C7_ToolListStatic ==
    (Answered /\ Decodes(line) /\ line.method = "tools/list") =>
        /\ response.kind = "result"
        /\ response.result.t = "tools"
        /\ \A n \in ToolNames :
              Cardinality({i \in DOMAIN response.result.tools :
                              response.result.tools[i] = n}) = 1
        /\ response.result.tools =
              << "get_current_weather", "get_forecast", "get_alerts", "get_air_quality" >>

\* the tool list given as the second answer, after an internal error
C7_Witness ==
    /\ pc = "read" /\ nread = 2
    /\ line.method = "tools/list"
    /\ Len(response.result.tools) = 4
    /\ stdout[1].code = -32603

\* C8: at the end of the stream (stdin closed and every line read) the only
\* step of the server is to leave the loop, with exit code 0 and nothing
\* printed; once it has left nothing more is printed; and it does leave,
\* whatever errors were answered before.
C8_EndOfStreamExits ==
    /\ [](pc = "exited" => (closed /\ nread = sent /\ Len(stdout) = nread /\ exit_code = 0))
    /\ [][(pc = "read" /\ closed /\ nread = sent /\ pc' # pc) =>
             (pc' = "exited" /\ stdout' = stdout /\ exit_code' = 0)]_vars
    /\ [][pc = "exited" =>
             (pc' = "exited" /\ stdout' = stdout /\ exit_code' = exit_code)]_vars
    /\ (closed ~> pc = "exited")

\* the process has exited after a parse error and an internal error
C8_Witness ==
    /\ pc = "exited" /\ exit_code = 0
    /\ SomeResponse(-32700) /\ SomeResponse(-32603)

\* C9: every request line written to the pipe is in the end answered by a
\* response line of its own, and by one only.
C9_EveryRequestAnswered ==
    /\ (sent > Len(stdout)) ~>
          (sent > 0 /\ Len(stdout) = sent /\ served[sent] = sent /\ response.kind # "none")
    /\ [](\A j, k \in 1..Len(served) : served[j] = served[k] => j = k)

\* every request of a full session answered, an internal error among them
C9_Witness ==
    /\ sent = MaxLines /\ Len(stdout) = MaxLines
    /\ stdout[MaxLines].code = -32603

\* C10: with one outstanding call at a time, the k-th response line is the
\* one printed for the k-th request line, and each response line is printed
\* for the request line written last (a result envelope carries its id).
C10_ResponsesInRequestOrder ==
    /\ [](Len(served) = Len(stdout) /\ \A k \in 1..Len(served) : served[k] = k)
    /\ [][Len(stdout') # Len(stdout) =>
             /\ Len(stdout') = Len(stdout) + 1
             /\ Len(stdout') = sent
             /\ served'[Len(stdout')] = sent
             /\ line' = line
             /\ response'.kind = "result" =>
                   response'.id = (IF line.id = NoId THEN IntId(1) ELSE line.id)]_vars

\* a parse error and then a result, answered in that order
C10_Witness ==
    /\ pc = "read" /\ served = << 1, 2 >>
    /\ stdout[1].code = -32700
    /\ stdout[2].kind = "result" /\ stdout[2].id = IntId(2)
    /\ line.id = IntId(2)


\* The "result" entry, the "error" entry of a response line.
HasResult(r) == r.result.t # "none"
HasError(r)  == r.code # 0 \/ r.message # ""

\* C11: every response line printed has exactly one of the entries "result"
\* and "error", on the success path, the parse-error path and the
\* internal-error path.
C11_ResultXorError ==
    /\ Len(stdout) > 0 /\ response # NoResponse =>
          /\ HasResult(response) # HasError(response)
          /\ response.kind = (IF HasResult(response) THEN "result" ELSE "error")
          /\ stdout[Len(stdout)] = Envelope(response)
    /\ \A k \in 1..Len(stdout) :
          /\ stdout[k].kind \in {"result", "error"}
          /\ stdout[k].kind = "error" <=> stdout[k].code # 0

\* an internal error printed after a result
C11_Witness ==
    /\ pc = "read" /\ Len(stdout) = 2
    /\ stdout[1].kind = "result"
    /\ response.code = -32603 /\ response.result = NoPayload

\* C12: a response has a null id only for a failure that belongs to no
\* request: no result envelope has a null id, and no request that decoded
\* with an integer id is answered with a null id.
C12_NullIdOnlyForTransportFailure ==
    Answered =>
        /\ response.kind = "result" => response.id # NullId
        /\ (Decodes(line) /\ line.id.t = "int") => response.id # NullId

\* C13: a line that is JSON but not a JSON object is answered like a line that
\* is not JSON: an error envelope with code -32700 and a null id.
C13_NonObjectIsParseError ==
    (Answered /\ line.json = "scalar") =>
        /\ response.kind = "error"
        /\ response.code = -32700
        /\ response.id = NullId


\* What main prints for a line: the response of the try body, or the one
\* of the except clause that catches what the body raises.
Reply(srv, env, l, rnd) ==
    LET out == TryOutcome(srv, env, l, rnd)
    IN  IF out.t = "ok" THEN out.response
        ELSE IF out.t = "JSONDecodeError"
        THEN ErrorResponse(PARSE_ERROR, "Parse error")
        ELSE ErrorResponse(INTERNAL_ERROR, out.message)

\* the other of the two servers
Other(srv) == IF srv = "mock" THEN "mcp" ELSE "mock"

\* What the two servers are to agree on: which of result/error is present,
\* the error code, the id, and whether the result is a domain-level
\* {"error": ...} payload.
Interface(r) ==
    [kind |-> r.kind, code |-> r.code, id |-> r.id, domain_error |-> r.result.t = "error"]

\* C17: the response a server prints for a line agrees, in which of
\* result/error is present, in the error code, in the id and in being a
\* domain-level error payload, with the response the other server prints
\* for the same line (each server prints one line per request line, so the
\* k-th responses of the two are the responses to the same line).
C17_ServersInterchangeable ==
    Answered =>
        \A rnd \in {0, 1} :
            Interface(response) = Interface(Reply(Other(server), environ, line, rnd))


\* C18: handling tool calls never changes MOCK_WEATHER_DATA, whatever the
\* units of the get_current_weather and get_forecast calls so far, and a
\* metric get_current_weather request for a location of the table is answered
\* with the temperature, feels_like and wind_speed the table was built with.
C18_TableUnchanged ==
    /\ MOCK_WEATHER_DATA = TABLE
    /\ \A l \in Lines :
          (/\ Answered /\ line = l
           /\ l.name = "get_current_weather"
           /\ WeatherCalls(server, environ, l) = {<< "London", "metric" >>})
          => /\ response.kind = "result"
             /\ response.result.temperature = TABLE["london"].temperature
             /\ response.result.feels_like = TABLE["london"].feels_like
             /\ response.result.wind_speed = TABLE["london"].wind_speed

\* a metric request for London answered after an imperial or a standard
\* conversion of the London row earlier in the session
C18_Witness ==
    /\ Answered
    /\ line.name = "get_current_weather"
    /\ WeatherCalls(server, environ, line) = {<< "London", "metric" >>}
    /\ converted
    /\ response.result.temperature = 12500


\* C14: the line written for a request holds one newline, its last
\* character, and json.loads of the line gives back the request: mappings,
\* sequences, numbers, strings, booleans and null unchanged.
C14_RoundTrip ==
    /\ cpc \in {"decode", "done"} =>
          /\ Len(wire) > 0
          /\ \A i \in 1..Len(wire) : wire[i] = "\n" <=> i = Len(wire)
    /\ cpc = "done" => decoded.ok /\ decoded.v = request

\* a request decoded whose params hold a list in a mapping, with a string
\* that holds a character to escape
C14_Witness ==
    /\ cpc = "done"
    /\ decoded.ok
    /\ \E c \in {"\n", "\"", "\\"} :
          decoded.v.v[3][2] = JMap(<< << << "a", "r", "g" >>, JList(<< JStr(<< c >>) >>) >> >>)
    /\ \E i \in 1..Len(wire) : wire[i] = "\\"


\* C15: once the child has been killed, a client call that is pending, and
\* one that is issued afterwards, ends in TransportError (end-of-stream, or
\* broken pipe on the write): it ends in nothing else, and it does not wait
\* for ever.
C15_KilledChildFailsCall ==
    /\ [](cstate \in {"idle", "pending", "result", "TransportError"})
    /\ [](cstate = "TransportError" =>
             child = "killed" /\ cause \in {"end-of-stream", "broken pipe"})
    /\ [][(child = "killed" /\ epc = "call" /\ cstate \in {"idle", "pending"}
              /\ cstate' # cstate) => cstate' = "TransportError"]_vars
    /\ (child = "killed" /\ cstate = "pending") ~> (cstate = "TransportError")
    /\ (child = "killed" /\ epc = "call" /\ cstate = "idle")
          ~> (cstate = "TransportError")

\* the call was pending when the child was killed, and has failed on
\* end-of-stream
C15_Witness ==
    /\ child = "killed"
    /\ epc = "call"
    /\ cstate = "TransportError"
    /\ cause = "end-of-stream"

\* C16: when an entry point has returned (or an exception has left it)
\* after agent.start() returned true, agent.stop() has been called, and no
\* child is left running.
C16_EverySessionStopped ==
    epc = "returned" =>
        /\ child # "none" => stopped
        /\ child # "running"

====
